---- MODULE Spec2Model ----
(***************************************************************************)
(* ClaimPlum: the OPD claim adjudication engine, its fraud detector and    *)
(* its policy service (src/backend/services).                              *)
(*                                                                         *)
(* Representation.                                                         *)
(*  - Optional[T]: None is <<>>, a present value v is <<v>>.               *)
(*  - str: a sequence of words (punctuation is a word of its own), so      *)
(*    that `a in b` is containment of a contiguous run of words and        *)
(*    str.lower() lowers each word.  "" is the empty sequence.             *)
(*  - money (float rupees): an integer number of 1/10000 rupee; every      *)
(*    input amount is a whole number of rupees, so a percentage of a       *)
(*    percentage is exact.  Floating-point rounding is not modelled.       *)
(*  - risk score: hundredths.  confidence score: thousandths.              *)
(*  - a date string: [fmt, day]: the format it is written in and the day   *)
(*    number it denotes (day 0 is 2024-01-01); fmt "text" is no date.      *)
(***************************************************************************)
EXTENDS Integers, Sequences, FiniteSets, TLC

VARIABLES
    policy_terms,     \* PolicyService.policy_terms, loaded by __init__
    extracted_data,   \* the caller's ExtractedData object
    member_info,      \* the caller's MemberInfo object
    decision,         \* what the last adjudicate_claim call returned, if any
    first_call,       \* history: the first call recorded, its arguments and its result
    db,               \* the tables behind process_claim: members, claims, documents
    requests          \* the process_claim requests: position and locals of each

vars == <<policy_terms, extracted_data, member_info, decision, first_call, db, requests>>

---------------------------------------------------------------------------
(* Python values *)

None == <<>>

Some(v) == <<v>>

Val(o) == o[1]

\* bool(x) of an Optional[str]: None and "" are falsy
Truthy(o) == o # None /\ Val(o) # <<>>

Rupees(n) == n * 10000

\* amount * pct / 100
Percent(amount, pct) == (amount \div 100) * pct

Min(a, b) == IF a <= b THEN a ELSE b

Abs(a) == IF a < 0 THEN 0 - a ELSE a

\* str.lower(), word by word
LowerWord(w) ==
    CASE w = "Active" -> "active"
      [] w = "ACTIVE" -> "active"
      [] w = "Multiple" -> "multiple"
      [] w = "High" -> "high"
      [] w = "Elevated" -> "elevated"
      [] w = "Suspiciously" -> "suspiciously"
      [] w = "Claim" -> "claim"
      [] w = "Vague" -> "vague"
      [] w = "Document" -> "document"
      [] w = "Cost" -> "cost"
      [] w = "Missing" -> "missing"
      [] w = "Viral" -> "viral"
      [] w = "Type" -> "type"
      [] w = "Diabetes" -> "diabetes"
      [] w = "Hypertension" -> "hypertension"
      [] w = "General" -> "general"
      [] w = "Obesity" -> "obesity"
      [] w = "Cosmetic" -> "cosmetic"
      [] w = "Weight" -> "weight"
      [] w = "Teeth" -> "teeth"
      [] w = "Whitening" -> "whitening"
      [] w = "Root" -> "root"
      [] w = "Canal" -> "canal"
      [] w = "Apollo" -> "apollo"
      [] w = "Hospitals" -> "hospitals"
      [] w = "City" -> "city"
      [] w = "Clinic" -> "clinic"
      [] w = "MRI" -> "mri"
      [] w = "Blood" -> "blood"
      [] w = "Pre-auth" -> "pre-auth"
      [] OTHER -> w

Lower(s) == [i \in 1..Len(s) |-> LowerWord(s[i])]

\* needle in hay
Contains(needle, hay) ==
    \E i \in 0..(Len(hay) - Len(needle)) :
        \A j \in 1..Len(needle) : hay[i + j] = needle[j]

\* dict.get(key, default)
Get(d, key, default) == IF key \in DOMAIN d THEN d[key] ELSE default

\* datetime.strptime(s, '%Y-%m-%d'): the day number, or ValueError
Strptime(s) ==
    IF s.fmt = "%Y-%m-%d" THEN [ok |-> TRUE, day |-> s.day] ELSE [ok |-> FALSE, day |-> 0]

---------------------------------------------------------------------------
(* models/claim_data.py *)

\* DoctorInfo(...), with the field validator of registration_number
validate_registration(v) ==
    IF Truthy(v) /\ ~Contains(<<"/">>, Val(v)) /\ ~Contains(<<"-">>, Val(v))
    THEN None ELSE v

DoctorInfo(name, registration_number, clinic_name) ==
    [name |-> name,
     registration_number |-> validate_registration(registration_number),
     clinic_name |-> clinic_name]

\* CostBreakdown(...), with the field validator of total
validate_total(v, calculated) == IF v = 0 /\ calculated > 0 THEN calculated ELSE v

CostBreakdown(consultation, medicines, diagnostic_tests, procedures, other, total) ==
    [consultation |-> consultation, medicines |-> medicines,
     diagnostic_tests |-> diagnostic_tests, procedures |-> procedures, other |-> other,
     total |-> validate_total(total, consultation + medicines + diagnostic_tests
                                     + procedures + other)]

\* DateInfo(...), with the field validator of the three dates
normalize_date(v) ==
    IF v = None THEN None
    ELSE IF Val(v).fmt \in {"%Y-%m-%d", "%d/%m/%Y", "%d-%m-%Y", "%Y/%m/%d"}
    THEN Some([fmt |-> "%Y-%m-%d", day |-> Val(v).day])
    ELSE v

DateInfo(consultation_date, prescription_date, bill_date) ==
    [consultation_date |-> normalize_date(consultation_date),
     prescription_date |-> normalize_date(prescription_date),
     bill_date |-> normalize_date(bill_date)]

---------------------------------------------------------------------------
(* services/policy_service.py: PolicyService *)

EmptyDict == <<>>

coverage_details == Get(policy_terms, "coverage_details", EmptyDict)

get_annual_limit == Get(coverage_details, "annual_limit", 0)

get_per_claim_limit == Get(coverage_details, "per_claim_limit", 0)

get_consultation_copay ==
    Get(Get(coverage_details, "consultation_fees", EmptyDict), "copay_percentage", 0)

get_pharmacy_copay ==
    Get(Get(coverage_details, "pharmacy", EmptyDict), "branded_drugs_copay", 0)

get_network_discount ==
    Get(Get(coverage_details, "consultation_fees", EmptyDict), "network_discount", 0)

\* a variant of get_waiting_period: an ailment without an entry waits a year
get_waiting_period_default_year(condition_type) ==
    LET waiting_periods == Get(policy_terms, "waiting_periods", EmptyDict) IN
    IF condition_type = "initial"
    THEN Get(waiting_periods, "initial_waiting", 30)
    ELSE Get(Get(waiting_periods, "specific_ailments", EmptyDict),
             LowerWord(condition_type), 365)

get_waiting_period(condition_type) ==
    LET waiting_periods == Get(policy_terms, "waiting_periods", EmptyDict) IN
    IF condition_type = "initial"
    THEN Get(waiting_periods, "initial_waiting", 30)
    ELSE IF condition_type = "pre_existing"
    THEN Get(waiting_periods, "pre_existing_diseases", 365)
    ELSE Get(Get(waiting_periods, "specific_ailments", EmptyDict),
             LowerWord(condition_type), 0)

\* the bidirectional substring match of is_excluded and is_network_hospital
MatchesAny(entries, text_lower) ==
    \E i \in 1..Len(entries) :
        \/ Contains(Lower(entries[i]), text_lower)
        \/ Contains(text_lower, Lower(entries[i]))

is_excluded(service_or_condition) ==
    MatchesAny(Get(policy_terms, "exclusions", <<>>), Lower(service_or_condition))

is_network_hospital(hospital_name) ==
    MatchesAny(Get(policy_terms, "network_hospitals", <<>>), Lower(hospital_name))

get_minimum_claim_amount ==
    Get(Get(policy_terms, "claim_requirements", EmptyDict),
        "minimum_claim_amount", Rupees(500))

requires_pre_authorization(service) ==
    LET covered_tests ==
            Get(Get(coverage_details, "diagnostic_tests", EmptyDict), "covered_tests", <<>>)
    IN  \E i \in 1..Len(covered_tests) :
            /\ Contains(<<"pre-auth">>, Lower(covered_tests[i]))
            /\ Contains(Lower(service), Lower(covered_tests[i]))

get_instant_approval_limit ==
    Get(Get(policy_terms, "cashless_facilities", EmptyDict),
        "instant_approval_limit", Rupees(5000))

---------------------------------------------------------------------------
(* services/fraud_detector.py: FraudDetector *)

\* a variant of _check_multiple_claims_same_day: two earlier claims are tolerated
_check_multiple_claims_same_day_third(ed, mi) ==
    LET claim_date == IF ed.dates # None THEN Val(ed.dates).consultation_date ELSE None
        same_day_claims ==
            Cardinality({i \in 1..Len(mi.previous_claims) :
                            mi.previous_claims[i].date = claim_date})
    IN  IF claim_date = None THEN <<>>
        ELSE IF same_day_claims >= 3
        THEN << <<"Multiple", "claims", "on", "same", "day", "(", "n", "total", ")">> >>
        ELSE <<>>

_check_multiple_claims_same_day(ed, mi) ==
    LET claim_date == IF ed.dates # None THEN Val(ed.dates).consultation_date ELSE None
        same_day_claims ==
            Cardinality({i \in 1..Len(mi.previous_claims) :
                            mi.previous_claims[i].date = claim_date})
    IN  IF claim_date = None THEN <<>>
        ELSE IF same_day_claims >= 2
        THEN << <<"Multiple", "claims", "on", "same", "day", "(", "n", "total", ")">> >>
        ELSE <<>>

_check_claim_frequency(mi) ==
    LET recent_claims == Len(mi.previous_claims) IN
    IF recent_claims >= 10
    THEN << <<"High", "claim", "frequency", ":", "n", "claims", "in", "recent", "period">> >>
    ELSE IF recent_claims >= 5
    THEN << <<"Elevated", "claim", "frequency", ":", "n", "claims", "in", "recent", "period">> >>
    ELSE <<>>

_check_suspicious_amounts(ed) ==
    IF ed.costs = None THEN <<>>
    ELSE
    LET total == Val(ed.costs).total IN
        (IF total > Rupees(1000) /\ total % Rupees(1000) = 0
         THEN << <<"Suspiciously", "round", "claim", "amount", ":", "n">> >>
         ELSE <<>>)
        \o
        (IF Rupees(4800) <= total /\ total <= Rupees(5000)
         THEN << <<"Claim", "amount", "suspiciously", "close", "to", "per-claim", "limit">> >>
         ELSE <<>>)

suspicious_terms == {"general", "unspecified", "unknown", "other"}

_check_diagnosis_appropriateness(ed) ==
    IF ~Truthy(ed.diagnosis) THEN <<>>
    ELSE
    LET diagnosis == Val(ed.diagnosis)
        diagnosis_lower == Lower(diagnosis)
    IN  IF \E term \in suspicious_terms : Contains(<<term>>, diagnosis_lower)
        THEN << (<<"Vague", "diagnosis", ":">> \o diagnosis) >>
        ELSE <<>>

\* the dates of a DateInfo that are set, in the order the code collects them
PresentDates(di) ==
    (IF di.consultation_date # None THEN <<Val(di.consultation_date)>> ELSE <<>>)
    \o (IF di.prescription_date # None THEN <<Val(di.prescription_date)>> ELSE <<>>)
    \o (IF di.bill_date # None THEN <<Val(di.bill_date)>> ELSE <<>>)

\* the date-span check; a ValueError of strptime is swallowed by `except: pass`
DateSpanFlags(ed) ==
    IF ed.dates = None THEN <<>>
    ELSE
    LET dates == PresentDates(Val(ed.dates)) IN
    IF Len(dates) < 2 THEN <<>>
    ELSE IF \E i \in 1..Len(dates) : ~Strptime(dates[i]).ok THEN <<>>
    ELSE
    LET days == {Strptime(dates[i]).day : i \in 1..Len(dates)}
        hi == CHOOSE d \in days : \A e \in days : e <= d
        lo == CHOOSE d \in days : \A e \in days : d <= e
    IN  IF hi - lo > 7
        THEN << <<"Document", "dates", "span", "n", "days", "(", "suspicious", ")">> >>
        ELSE <<>>

CostMismatchFlags(ed) ==
    IF ed.costs = None THEN <<>>
    ELSE
    LET costs == Val(ed.costs)
        calculated_total == costs.consultation + costs.medicines + costs.diagnostic_tests
                            + costs.procedures + costs.other
        diff == Abs(costs.total - calculated_total)
    IN  IF calculated_total > 0 /\ costs.total > 0 /\ 5 * diff > costs.total
        THEN << <<"Cost", "breakdown", "doesn't", "match", "total", "(", "n",
                  "discrepancy", ")">> >>
        ELSE <<>>

MissingRegistrationFlags(ed) ==
    IF ed.doctor_info = None \/ ~Truthy(Val(ed.doctor_info).registration_number)
    THEN << <<"Missing", "doctor", "registration", "number">> >>
    ELSE <<>>

_check_document_consistency(ed) ==
    DateSpanFlags(ed) \o CostMismatchFlags(ed) \o MissingRegistrationFlags(ed)

detect_fraud(ed, mi) ==
    _check_multiple_claims_same_day(ed, mi)
    \o _check_claim_frequency(mi)
    \o _check_suspicious_amounts(ed)
    \o _check_diagnosis_appropriateness(ed)
    \o _check_document_consistency(ed)

\* the weight of one flag, in hundredths
FlagWeight(flag) ==
    LET flag_lower == Lower(flag) IN
    IF Contains(<<"multiple", "claims">>, flag_lower) THEN 30
    ELSE IF Contains(<<"high", "frequency">>, flag_lower)
            \/ Contains(<<"elevated", "frequency">>, flag_lower) THEN 25
    ELSE IF Contains(<<"round", "amount">>, flag_lower)
            \/ Contains(<<"close", "to", "limit">>, flag_lower) THEN 15
    ELSE IF Contains(<<"vague", "diagnosis">>, flag_lower) THEN 10
    ELSE IF Contains(<<"inconsistent">>, flag_lower)
            \/ Contains(<<"discrepancy">>, flag_lower) THEN 20
    ELSE IF Contains(<<"missing">>, flag_lower) THEN 15
    ELSE 10

RECURSIVE SumWeights(_)
SumWeights(flags) ==
    IF flags = <<>> THEN 0 ELSE FlagWeight(Head(flags)) + SumWeights(Tail(flags))

\* in hundredths
calculate_fraud_risk_score(fraud_flags) ==
    IF fraud_flags = <<>> THEN 0 ELSE Min(SumWeights(fraud_flags), 100)


---------------------------------------------------------------------------
(* models/decision.py *)

DecisionType == {"APPROVED", "REJECTED", "PARTIAL", "MANUAL_REVIEW", "NOT_A_MEMBER"}

StepResult == {"PASS", "FAIL", "WARNING", "SKIPPED"}

\* a RejectionReason; the interpolated details are left out
RejectionReason(category, code, message) ==
    [category |-> category, code |-> code, message |-> message]

Deductions ==
    [copay |-> 0, non_covered_items |-> 0, exceeded_limits |-> 0, network_discount |-> 0]

AdjudicationSteps ==
    [eligibility |-> "SKIPPED", documents |-> "SKIPPED", coverage |-> "SKIPPED",
     limits |-> "SKIPPED", medical_necessity |-> "SKIPPED"]

\* ClaimDecision(claimed_amount=..., decision=...), the other fields at their defaults.
\* raised is not a field of the class: it records that the call ended in an
\* exception instead of returning this object.
ClaimDecision(claimed_amount, d) ==
    [decision |-> d,
     approved_amount |-> 0,
     claimed_amount |-> claimed_amount,
     deductions |-> Deductions,
     rejection_reasons |-> <<>>,
     notes |-> <<>>,
     next_steps |-> <<>>,
     confidence_score |-> 0,
     fraud_flags |-> <<>>,
     adjudication_steps |-> AdjudicationSteps,
     cashless_approved |-> FALSE,
     is_network_hospital |-> FALSE,
     raised |-> FALSE]

---------------------------------------------------------------------------
(* services/adjudication_engine.py: AdjudicationEngine *)

\* a variant of InInitialWaiting: the comparison reversed
InInitialWaiting_reversed(days_diff) == days_diff > get_waiting_period("initial")

\* line 176: the consultation lies inside the initial waiting period
InInitialWaiting(days_diff) == days_diff < get_waiting_period("initial")

\* the body of the try block of _check_eligibility:
\* "raise" (strptime failed), "reject" (a return inside the block) or "pass"
WaitingPeriodCheck(ed, mi) ==
    LET policy_start == Strptime(mi.policy_start_date)
        consultation_date == Strptime(Val(Val(ed.dates).consultation_date))
        days_diff == consultation_date.day - policy_start.day
        diagnosis_lower == Lower(Val(ed.diagnosis))
    IN  IF ~policy_start.ok \/ ~consultation_date.ok
        THEN [outcome |-> "raise", reasons |-> <<>>]
        ELSE IF InInitialWaiting(days_diff)
        THEN [outcome |-> "reject",
              reasons |-> <<RejectionReason("eligibility", "WAITING_PERIOD",
                                            "Treatment within initial waiting period")>>]
        ELSE IF /\ Truthy(ed.diagnosis)
                /\ Contains(<<"diabetes">>, diagnosis_lower)
                /\ days_diff < get_waiting_period("diabetes")
        THEN [outcome |-> "reject",
              reasons |-> <<RejectionReason("eligibility", "WAITING_PERIOD",
                                            "Diabetes has waiting period")>>]
        ELSE IF /\ Truthy(ed.diagnosis)
                /\ \/ Contains(<<"hypertension">>, diagnosis_lower)
                   \/ Contains(<<"blood", "pressure">>, diagnosis_lower)
                /\ days_diff < get_waiting_period("hypertension")
        THEN [outcome |-> "reject",
              reasons |-> <<RejectionReason("eligibility", "WAITING_PERIOD",
                                            "Hypertension has waiting period")>>]
        ELSE [outcome |-> "pass", reasons |-> <<>>]

\* a variant of _check_eligibility: the ValueError of strptime is not caught
_check_eligibility_uncaught(ed, mi) ==
    IF Lower(mi.policy_status) # <<"active">>
    THEN [pass |-> FALSE, raised |-> FALSE,
          reasons |-> <<RejectionReason("eligibility", "POLICY_INACTIVE",
                                        "Policy is not active")>>]
    ELSE IF ed.dates # None /\ Val(ed.dates).consultation_date # None
    THEN LET try == WaitingPeriodCheck(ed, mi) IN
         IF try.outcome = "reject"
         THEN [pass |-> FALSE, raised |-> FALSE, reasons |-> try.reasons]
         ELSE [pass |-> TRUE, raised |-> try.outcome = "raise", reasons |-> <<>>]
    ELSE [pass |-> TRUE, raised |-> FALSE, reasons |-> <<>>]

\* a variant of _check_eligibility: a date that does not parse is rejected
_check_eligibility_fail_closed(ed, mi) ==
    IF Lower(mi.policy_status) # <<"active">>
    THEN [pass |-> FALSE, raised |-> FALSE,
          reasons |-> <<RejectionReason("eligibility", "POLICY_INACTIVE",
                                        "Policy is not active")>>]
    ELSE IF ed.dates # None /\ Val(ed.dates).consultation_date # None
    THEN LET try == WaitingPeriodCheck(ed, mi) IN
         IF try.outcome = "reject"
         THEN [pass |-> FALSE, raised |-> FALSE, reasons |-> try.reasons]
         ELSE IF try.outcome = "raise"
         THEN [pass |-> FALSE, raised |-> FALSE,
               reasons |-> <<RejectionReason("eligibility", "WAITING_PERIOD",
                                             "Date could not be read")>>]
         ELSE [pass |-> TRUE, raised |-> FALSE, reasons |-> <<>>]
    ELSE [pass |-> TRUE, raised |-> FALSE, reasons |-> <<>>]

\* Step 1.  `except Exception` logs the error and falls through to return True, [].
_check_eligibility(ed, mi) ==
    IF Lower(mi.policy_status) # <<"active">>
    THEN [pass |-> FALSE, raised |-> FALSE,
          reasons |-> <<RejectionReason("eligibility", "POLICY_INACTIVE",
                                        "Policy is not active")>>]
    ELSE IF ed.dates # None /\ Val(ed.dates).consultation_date # None
    THEN LET try == WaitingPeriodCheck(ed, mi) IN
         IF try.outcome = "reject"
         THEN [pass |-> FALSE, raised |-> FALSE, reasons |-> try.reasons]
         ELSE [pass |-> TRUE, raised |-> FALSE, reasons |-> <<>>]
    ELSE [pass |-> TRUE, raised |-> FALSE, reasons |-> <<>>]

\* a variant of _validate_documents: the consultation date is looked at first
_validate_documents_date_first(ed) ==
    IF ed.dates = None \/ Val(ed.dates).consultation_date = None
    THEN [pass |-> FALSE,
          reasons |-> <<RejectionReason("documentation", "DATE_MISMATCH",
                            "Consultation date missing from documents")>>]
    ELSE IF ed.doctor_info = None \/ ~Truthy(Val(ed.doctor_info).name)
    THEN [pass |-> FALSE,
          reasons |-> <<RejectionReason("documentation", "MISSING_DOCUMENTS",
                            "Prescription from registered doctor is required")>>]
    ELSE IF ~Truthy(Val(ed.doctor_info).registration_number)
            \/ (/\ ~Contains(<<"/">>, Val(Val(ed.doctor_info).registration_number))
                /\ ~Contains(<<"-">>, Val(Val(ed.doctor_info).registration_number)))
    THEN [pass |-> FALSE,
          reasons |-> <<RejectionReason("documentation", "DOCTOR_REG_INVALID",
                            "Doctor registration number missing")>>]
    ELSE [pass |-> TRUE, reasons |-> <<>>]

\* Step 2
_validate_documents(ed) ==
    IF ed.doctor_info = None \/ ~Truthy(Val(ed.doctor_info).name)
    THEN [pass |-> FALSE,
          reasons |-> <<RejectionReason("documentation", "MISSING_DOCUMENTS",
                            "Prescription from registered doctor is required")>>]
    ELSE IF Truthy(Val(ed.doctor_info).registration_number)
            /\ ~Contains(<<"/">>, Val(Val(ed.doctor_info).registration_number))
            /\ ~Contains(<<"-">>, Val(Val(ed.doctor_info).registration_number))
    THEN [pass |-> FALSE,
          reasons |-> <<RejectionReason("documentation", "DOCTOR_REG_INVALID",
                            "Invalid doctor registration number format")>>]
    ELSE IF ~Truthy(Val(ed.doctor_info).registration_number)
    THEN [pass |-> FALSE,
          reasons |-> <<RejectionReason("documentation", "DOCTOR_REG_INVALID",
                            "Doctor registration number missing")>>]
    ELSE IF ed.dates = None \/ Val(ed.dates).consultation_date = None
    THEN [pass |-> FALSE,
          reasons |-> <<RejectionReason("documentation", "DATE_MISMATCH",
                            "Consultation date missing from documents")>>]
    ELSE [pass |-> TRUE, reasons |-> <<>>]

IsCosmetic(proc_name) ==
    \/ Contains(<<"cosmetic">>, proc_name)
    \/ Contains(<<"whitening">>, proc_name)
    \/ Contains(<<"aesthetic">>, proc_name)

IsWeightLoss(proc_name) ==
    \/ Contains(<<"weight", "loss">>, proc_name)
    \/ Contains(<<"bariatric">>, proc_name)
    \/ Contains(<<"diet", "plan">>, proc_name)

\* the loop over extracted_data.procedures from index i on;
\* returned is set when the loop body returned (a weight-loss procedure alone)
RECURSIVE ProcedureLoop(_, _, _, _)
ProcedureLoop(procedures, i, rejection_reasons, partial_coverage) ==
    IF i > Len(procedures)
    THEN [returned |-> FALSE, reasons |-> rejection_reasons, partial |-> partial_coverage]
    ELSE
    LET proc_name == Lower(procedures[i].name)
        r1 == IF IsCosmetic(proc_name)
              THEN Append(rejection_reasons,
                          RejectionReason("coverage", "SERVICE_NOT_COVERED",
                                          "Cosmetic procedure not covered"))
              ELSE rejection_reasons
        p1 == partial_coverage \/ IsCosmetic(proc_name)
        r2 == IF IsWeightLoss(proc_name)
              THEN Append(r1, RejectionReason("coverage", "SERVICE_NOT_COVERED",
                                              "Weight loss treatment not covered"))
              ELSE r1
    IN  IF IsWeightLoss(proc_name) /\ Len(procedures) = 1
        THEN [returned |-> TRUE, reasons |-> r2, partial |-> FALSE]
        ELSE ProcedureLoop(procedures, i + 1, r2, p1 \/ IsWeightLoss(proc_name))

\* a variant of _verify_coverage: non-covered procedures among others are let pass
_verify_coverage_procedures_pass(ed) ==
    IF Truthy(ed.diagnosis) /\ is_excluded(Val(ed.diagnosis))
    THEN [pass |-> FALSE, partial |-> FALSE,
          reasons |-> <<RejectionReason("coverage", "EXCLUDED_CONDITION",
                                        "Condition is excluded from coverage")>>]
    ELSE
    LET loop == ProcedureLoop(ed.procedures, 1, <<>>, FALSE) IN
    IF loop.returned
    THEN [pass |-> FALSE, partial |-> FALSE, reasons |-> loop.reasons]
    ELSE IF \E i \in 1..Len(ed.diagnostic_tests) :
                requires_pre_authorization(ed.diagnostic_tests[i])
    THEN [pass |-> FALSE, partial |-> FALSE,
          reasons |-> Append(loop.reasons,
                             RejectionReason("coverage", "PRE_AUTH_MISSING",
                                             "requires pre-authorization"))]
    ELSE [pass |-> TRUE, partial |-> FALSE, reasons |-> <<>>]

\* Step 3: (all_covered, rejection_reasons, partial_coverage)
_verify_coverage(ed) ==
    IF Truthy(ed.diagnosis) /\ is_excluded(Val(ed.diagnosis))
    THEN [pass |-> FALSE, partial |-> FALSE,
          reasons |-> <<RejectionReason("coverage", "EXCLUDED_CONDITION",
                                        "Condition is excluded from coverage")>>]
    ELSE
    LET loop == ProcedureLoop(ed.procedures, 1, <<>>, FALSE) IN
    IF loop.returned
    THEN [pass |-> FALSE, partial |-> FALSE, reasons |-> loop.reasons]
    ELSE IF \E i \in 1..Len(ed.diagnostic_tests) :
                requires_pre_authorization(ed.diagnostic_tests[i])
    THEN [pass |-> FALSE, partial |-> FALSE,
          reasons |-> Append(loop.reasons,
                             RejectionReason("coverage", "PRE_AUTH_MISSING",
                                             "requires pre-authorization"))]
    ELSE IF loop.reasons # <<>> /\ loop.partial
    THEN [pass |-> FALSE, partial |-> TRUE, reasons |-> loop.reasons]
    ELSE [pass |-> TRUE, partial |-> FALSE, reasons |-> <<>>]


\* a variant of Copay: medicines carry no copay
Copay_consultation_only(costs) ==
    IF costs.consultation > 0
    THEN Percent(costs.consultation, get_consultation_copay) ELSE 0

\* the copay of _check_limits: consultation and (branded) pharmacy copay
Copay(costs) ==
    (IF costs.consultation > 0
     THEN Percent(costs.consultation, get_consultation_copay) ELSE 0)
    + (IF costs.medicines > 0
       THEN Percent(costs.medicines, get_pharmacy_copay) ELSE 0)

\* a variant of ExceedsPerClaimLimit: the annual limit is read instead
ExceedsPerClaimLimit_annual(claimed_amount) == claimed_amount > get_annual_limit

\* lines 362-363
ExceedsPerClaimLimit(claimed_amount) == claimed_amount > get_per_claim_limit

\* a variant of _check_limits: half of a claim with procedures is booked as
\* non-covered
_check_limits_non_covered(ed, mi) ==
    IF ed.costs = None
    THEN [pass |-> FALSE, approved_amount |-> 0, deductions |-> Deductions,
          reasons |-> <<RejectionReason("limits", "BELOW_MIN_AMOUNT",
                                        "No costs found in claim")>>]
    ELSE
    LET costs == Val(ed.costs)
        total == costs.total
        annual_limit == get_annual_limit
        remaining == annual_limit - mi.ytd_claims
        over_annual == mi.ytd_claims + total > annual_limit
        exceeded_limits == IF over_annual THEN total - remaining ELSE 0
        claimed_amount == IF over_annual THEN remaining ELSE total
        deductions == [Deductions EXCEPT !.exceeded_limits = exceeded_limits,
                                         !.copay = Copay(costs),
                                         !.non_covered_items =
                                             IF ed.procedures # <<>>
                                             THEN total \div 2 ELSE 0]
    IN  IF total < get_minimum_claim_amount
        THEN [pass |-> FALSE, approved_amount |-> 0, deductions |-> Deductions,
              reasons |-> <<RejectionReason("process", "BELOW_MIN_AMOUNT",
                                            "Claim below minimum amount")>>]
        ELSE IF ExceedsPerClaimLimit(total)
        THEN [pass |-> FALSE, approved_amount |-> 0, deductions |-> Deductions,
              reasons |-> <<RejectionReason("limits", "PER_CLAIM_EXCEEDED",
                                            "Claim exceeds per-claim limit")>>]
        ELSE IF over_annual /\ remaining <= 0
        THEN [pass |-> FALSE, approved_amount |-> 0, deductions |-> Deductions,
              reasons |-> <<RejectionReason("limits", "ANNUAL_LIMIT_EXCEEDED",
                                            "Annual limit exhausted")>>]
        ELSE [pass |-> TRUE,
              approved_amount |-> claimed_amount - deductions.copay
                                  - deductions.non_covered_items
                                  - deductions.exceeded_limits,
              deductions |-> deductions,
              reasons |-> IF over_annual
                          THEN <<RejectionReason("limits", "ANNUAL_LIMIT_EXCEEDED",
                                     "Partial approval: remaining in annual limit")>>
                          ELSE <<>>]

\* Step 4: (within_limits, approved_amount, deductions, rejection_reasons)
_check_limits(ed, mi) ==
    IF ed.costs = None
    THEN [pass |-> FALSE, approved_amount |-> 0, deductions |-> Deductions,
          reasons |-> <<RejectionReason("limits", "BELOW_MIN_AMOUNT",
                                        "No costs found in claim")>>]
    ELSE
    LET costs == Val(ed.costs)
        total == costs.total
        annual_limit == get_annual_limit
        remaining == annual_limit - mi.ytd_claims
        over_annual == mi.ytd_claims + total > annual_limit
        exceeded_limits == IF over_annual THEN total - remaining ELSE 0
        claimed_amount == IF over_annual THEN remaining ELSE total
        deductions == [Deductions EXCEPT !.exceeded_limits = exceeded_limits,
                                         !.copay = Copay(costs)]
    IN  IF total < get_minimum_claim_amount
        THEN [pass |-> FALSE, approved_amount |-> 0, deductions |-> Deductions,
              reasons |-> <<RejectionReason("process", "BELOW_MIN_AMOUNT",
                                            "Claim below minimum amount")>>]
        ELSE IF ExceedsPerClaimLimit(total)
        THEN [pass |-> FALSE, approved_amount |-> 0, deductions |-> Deductions,
              reasons |-> <<RejectionReason("limits", "PER_CLAIM_EXCEEDED",
                                            "Claim exceeds per-claim limit")>>]
        ELSE IF over_annual /\ remaining <= 0
        THEN [pass |-> FALSE, approved_amount |-> 0, deductions |-> Deductions,
              reasons |-> <<RejectionReason("limits", "ANNUAL_LIMIT_EXCEEDED",
                                            "Annual limit exhausted")>>]
        ELSE [pass |-> TRUE,
              approved_amount |-> claimed_amount - deductions.copay
                                  - deductions.non_covered_items
                                  - deductions.exceeded_limits,
              deductions |-> deductions,
              reasons |-> IF over_annual
                          THEN <<RejectionReason("limits", "ANNUAL_LIMIT_EXCEEDED",
                                     "Partial approval: remaining in annual limit")>>
                          ELSE <<>>]

\* Step 5
_review_medical_necessity(ed) ==
    IF ~Truthy(ed.diagnosis)
    THEN [pass |-> FALSE,
          reasons |-> <<RejectionReason("medical", "NOT_MEDICALLY_NECESSARY",
                            "Diagnosis missing - cannot assess medical necessity")>>]
    ELSE [pass |-> TRUE, reasons |-> <<>>]

\* in thousandths
_calculate_decision_confidence(d, ed) ==
    IF d.decision = "REJECTED" THEN Min(ed.confidence_score + 100, 1000)
    ELSE IF d.decision = "MANUAL_REVIEW" THEN 500
    ELSE IF Len(d.fraud_flags) > 0 THEN (ed.confidence_score * 8) \div 10
    ELSE ed.confidence_score

\* the template chosen; amounts and counts are left out of the text
_generate_notes(d) ==
    IF d.decision = "APPROVED"
    THEN <<"Claim", "approved", "for", "n">>
         \o (IF d.deductions.copay > 0 THEN <<"(", "after", "n", "copay", ")">> ELSE <<>>)
         \o (IF d.is_network_hospital
             THEN <<".", "Network", "discount", "of", "n", "applied">> ELSE <<>>)
    ELSE IF d.decision = "REJECTED"
    THEN <<"Claim", "rejected", ".", "n", "issues", "found", ".">>
    ELSE IF d.decision = "PARTIAL"
    THEN <<"Partial", "approval", ":", "n", "of", "n">>
    ELSE IF d.decision = "MANUAL_REVIEW"
    THEN <<"Claim", "flagged", "for", "manual", "review", "due", "to", "unusual", "patterns">>
    ELSE <<>>

_generate_next_steps(d) ==
    IF d.decision = "APPROVED"
    THEN IF d.cashless_approved
         THEN <<"Cashless", "approval", "granted", ".">>
         ELSE <<"Approved", "amount", "will", "be", "reimbursed", ".">>
    ELSE IF d.decision = "REJECTED"
    THEN <<"Please", "review", "rejection", "reasons", ".">>
    ELSE IF d.decision = "PARTIAL"
    THEN <<"Partial", "amount", "approved", ".">>
    ELSE IF d.decision = "MANUAL_REVIEW"
    THEN <<"Our", "claims", "team", "will", "review", "your", "claim", ".">>
    ELSE <<>>

\* a variant of Finalize: the network discount is taken on the claimed amount
Finalize_discount_on_claimed(d, ed) ==
    LET hospital_name ==
            IF Truthy(ed.hospital_name) THEN ed.hospital_name
            ELSE IF ed.doctor_info # None THEN Val(ed.doctor_info).clinic_name
            ELSE None
        network == Truthy(hospital_name) /\ is_network_hospital(Val(hospital_name))
        discount == Percent(d.claimed_amount, get_network_discount)
        d1 == IF network
              THEN [d EXCEPT !.is_network_hospital = TRUE,
                             !.deductions.network_discount = discount,
                             !.approved_amount = d.approved_amount - discount,
                             !.cashless_approved =
                                 (d.claimed_amount <= get_instant_approval_limit)]
              ELSE d
        d2 == [d1 EXCEPT !.confidence_score = _calculate_decision_confidence(d1, ed)]
        d3 == [d2 EXCEPT !.notes = _generate_notes(d2)]
    IN  [d3 EXCEPT !.next_steps = _generate_next_steps(d3)]

\* lines 118-147: network hospital benefits, confidence, notes and next steps
Finalize(d, ed) ==
    LET hospital_name ==
            IF Truthy(ed.hospital_name) THEN ed.hospital_name
            ELSE IF ed.doctor_info # None THEN Val(ed.doctor_info).clinic_name
            ELSE None
        network == Truthy(hospital_name) /\ is_network_hospital(Val(hospital_name))
        discount == Percent(d.approved_amount, get_network_discount)
        d1 == IF network
              THEN [d EXCEPT !.is_network_hospital = TRUE,
                             !.deductions.network_discount = discount,
                             !.approved_amount = d.approved_amount - discount,
                             !.cashless_approved =
                                 (d.claimed_amount <= get_instant_approval_limit)]
              ELSE d
        d2 == [d1 EXCEPT !.confidence_score = _calculate_decision_confidence(d1, ed)]
        d3 == [d2 EXCEPT !.notes = _generate_notes(d2)]
    IN  [d3 EXCEPT !.next_steps = _generate_next_steps(d3)]

\* a variant of LimitsAndNecessity: a failed limits step is FAIL and returns
LimitsAndNecessity_limits_stop(d, ed, mi) ==
    LET step4 == _check_limits(ed, mi)
        d4 == [d EXCEPT !.adjudication_steps.limits =
                            IF step4.pass THEN "PASS" ELSE "FAIL",
                        !.approved_amount = step4.approved_amount,
                        !.deductions = step4.deductions,
                        !.decision =
                            IF step4.pass THEN d.decision
                            ELSE IF step4.approved_amount > 0 THEN "PARTIAL"
                            ELSE "REJECTED",
                        !.rejection_reasons =
                            IF step4.pass THEN d.rejection_reasons
                            ELSE d.rejection_reasons \o step4.reasons]
        step5 == _review_medical_necessity(ed)
        d5 == [d4 EXCEPT !.adjudication_steps.medical_necessity =
                             IF step5.pass THEN "PASS" ELSE "FAIL"]
    IN  IF ~step4.pass
        THEN d4
        ELSE IF ~step5.pass
        THEN [d5 EXCEPT !.decision = "REJECTED",
                        !.rejection_reasons = d4.rejection_reasons \o step5.reasons]
        ELSE Finalize(d5, ed)

\* a variant of LimitsAndNecessity: the reasons of step 4 are kept when it passes
LimitsAndNecessity_reasons_always(d, ed, mi) ==
    LET step4 == _check_limits(ed, mi)
        d4 == [d EXCEPT !.adjudication_steps.limits =
                            IF step4.pass THEN "PASS" ELSE "WARNING",
                        !.approved_amount = step4.approved_amount,
                        !.deductions = step4.deductions,
                        !.decision =
                            IF step4.pass THEN d.decision
                            ELSE IF step4.approved_amount > 0 THEN "PARTIAL"
                            ELSE "REJECTED",
                        !.rejection_reasons = d.rejection_reasons \o step4.reasons]
        step5 == _review_medical_necessity(ed)
        d5 == [d4 EXCEPT !.adjudication_steps.medical_necessity =
                             IF step5.pass THEN "PASS" ELSE "FAIL"]
    IN  IF ~step5.pass
        THEN [d5 EXCEPT !.decision = "REJECTED",
                        !.rejection_reasons = d4.rejection_reasons \o step5.reasons]
        ELSE Finalize(d5, ed)

\* lines 95-147: steps 4 and 5 and the completion, from the decision after step 3
LimitsAndNecessity(d, ed, mi) ==
    LET step4 == _check_limits(ed, mi)
        d4 == [d EXCEPT !.adjudication_steps.limits =
                            IF step4.pass THEN "PASS" ELSE "WARNING",
                        !.approved_amount = step4.approved_amount,
                        !.deductions = step4.deductions,
                        !.decision =
                            IF step4.pass THEN d.decision
                            ELSE IF step4.approved_amount > 0 THEN "PARTIAL"
                            ELSE "REJECTED",
                        !.rejection_reasons =
                            IF step4.pass THEN d.rejection_reasons
                            ELSE d.rejection_reasons \o step4.reasons]
        step5 == _review_medical_necessity(ed)
        d5 == [d4 EXCEPT !.adjudication_steps.medical_necessity =
                             IF step5.pass THEN "PASS" ELSE "FAIL"]
    IN  IF ~step5.pass
        THEN [d5 EXCEPT !.decision = "REJECTED",
                        !.rejection_reasons = d4.rejection_reasons \o step5.reasons]
        ELSE Finalize(d5, ed)

\* a variant of RuleSteps: a failed documents step rejects but does not return
RuleSteps_documents_no_return(d, ed, mi) ==
    LET step1 == _check_eligibility(ed, mi)
        d1 == [d EXCEPT !.adjudication_steps.eligibility =
                            IF step1.pass THEN "PASS" ELSE "FAIL"]
        step2 == _validate_documents(ed)
        d2 == [d1 EXCEPT !.adjudication_steps.documents =
                             IF step2.pass THEN "PASS" ELSE "FAIL",
                         !.decision = IF step2.pass THEN d.decision ELSE "REJECTED",
                         !.rejection_reasons = d.rejection_reasons \o step2.reasons]
        step3 == _verify_coverage(ed)
        d3 == [d2 EXCEPT !.adjudication_steps.coverage =
                             IF step3.pass THEN "PASS" ELSE "FAIL"]
    IN  IF step1.raised
        THEN [d EXCEPT !.raised = TRUE]
        ELSE IF ~step1.pass
        THEN [d1 EXCEPT !.decision = "REJECTED",
                        !.rejection_reasons = d.rejection_reasons \o step1.reasons]
        ELSE IF ~step3.pass /\ ~step3.partial
        THEN [d3 EXCEPT !.decision = "REJECTED",
                        !.rejection_reasons = d2.rejection_reasons \o step3.reasons]
        ELSE IF step3.partial
        THEN LimitsAndNecessity(
                 [d3 EXCEPT !.decision = "PARTIAL",
                            !.rejection_reasons = d2.rejection_reasons \o step3.reasons],
                 ed, mi)
        ELSE LimitsAndNecessity(d3, ed, mi)

\* lines 68-93: steps 1 to 3, from the decision that passed the fraud gate
RuleSteps(d, ed, mi) ==
    LET step1 == _check_eligibility(ed, mi)
        d1 == [d EXCEPT !.adjudication_steps.eligibility =
                            IF step1.pass THEN "PASS" ELSE "FAIL"]
        step2 == _validate_documents(ed)
        d2 == [d1 EXCEPT !.adjudication_steps.documents =
                             IF step2.pass THEN "PASS" ELSE "FAIL"]
        step3 == _verify_coverage(ed)
        d3 == [d2 EXCEPT !.adjudication_steps.coverage =
                             IF step3.pass THEN "PASS" ELSE "FAIL"]
    IN  IF step1.raised
        THEN [d EXCEPT !.raised = TRUE]
        ELSE IF ~step1.pass
        THEN [d1 EXCEPT !.decision = "REJECTED",
                        !.rejection_reasons = d.rejection_reasons \o step1.reasons]
        ELSE IF ~step2.pass
        THEN [d2 EXCEPT !.decision = "REJECTED",
                        !.rejection_reasons = d.rejection_reasons \o step2.reasons]
        ELSE IF ~step3.pass /\ ~step3.partial
        THEN [d3 EXCEPT !.decision = "REJECTED",
                        !.rejection_reasons = d.rejection_reasons \o step3.reasons]
        ELSE IF step3.partial
        THEN LimitsAndNecessity(
                 [d3 EXCEPT !.decision = "PARTIAL",
                            !.rejection_reasons = d.rejection_reasons \o step3.reasons],
                 ed, mi)
        ELSE LimitsAndNecessity(d3, ed, mi)

\* a variant of HighFraudRisk: the threshold itself is let through
HighFraudRisk_strict(fraud_risk) == fraud_risk > 50

\* line 63: fraud_risk >= 0.5
HighFraudRisk(fraud_risk) == fraud_risk >= 50

\* the value adjudicate_claim(extracted_data, member_info) returns
adjudicate_claim(ed, mi) ==
    LET fraud_flags == detect_fraud(ed, mi)
        fraud_risk == calculate_fraud_risk_score(fraud_flags)
        d0 == [ClaimDecision(IF ed.costs # None THEN Val(ed.costs).total ELSE 0,
                             "APPROVED")
                  EXCEPT !.fraud_flags = fraud_flags]
    IN  IF HighFraudRisk(fraud_risk)
        THEN [d0 EXCEPT !.decision = "MANUAL_REVIEW",
                        !.notes = <<"Flagged", "for", "manual", "review", "due", "to",
                                    "fraud", "indicators", "(", "risk", "score", ":",
                                    "n", ")">>]
        ELSE RuleSteps(d0, ed, mi)


---------------------------------------------------------------------------
(* The callers' inputs *)

\* how many fields of a request may differ from the documented example
MaxDeviations == 3

Date(fmt, day) == Some([fmt |-> fmt, day |-> day])

\* the policy document is not part of the source tree: the model ranges over a
\* complete document, a document with other terms, and one with no sections
FullPolicy ==
    [policy_name |-> "Plum OPD Advantage",
     coverage_details |->
        [annual_limit |-> Rupees(50000),
         per_claim_limit |-> Rupees(5000),
         consultation_fees |-> [copay_percentage |-> 10, network_discount |-> 20],
         pharmacy |-> [branded_drugs_copay |-> 30],
         diagnostic_tests |->
            [covered_tests |-> << <<"Blood", "tests">>,
                                  <<"MRI", "(", "with", "pre-auth", ")">> >>]],
     waiting_periods |->
        [initial_waiting |-> 30,
         specific_ailments |-> [diabetes |-> 90, hypertension |-> 90]],
     exclusions |-> << <<"Cosmetic", "procedures">>, <<"Obesity">> >>,
     network_hospitals |-> << <<"Apollo", "Hospitals">> >>,
     claim_requirements |-> [minimum_claim_amount |-> Rupees(500)],
     cashless_facilities |-> [instant_approval_limit |-> Rupees(5000)]]

SmallPolicy ==
    [policy_name |-> "Small",
     coverage_details |->
        [annual_limit |-> Rupees(10000),
         per_claim_limit |-> Rupees(6000),
         consultation_fees |-> [copay_percentage |-> 20],
         diagnostic_tests |-> [covered_tests |-> << <<"Blood", "tests">> >>]],
     waiting_periods |-> [initial_waiting |-> 0, specific_ailments |-> [diabetes |-> 400]],
     network_hospitals |-> << <<"City", "Clinic">> >>,
     claim_requirements |-> [minimum_claim_amount |-> Rupees(200)],
     cashless_facilities |-> [instant_approval_limit |-> Rupees(1000)]]

NoSectionsPolicy == [policy_name |-> "Empty"]

Policies == {FullPolicy, SmallPolicy, NoSectionsPolicy}

ValidRegistration == Some(<<"KA", "/", "45678", "/", "2015">>)

\* the example of ExtractedData.Config
ExampleData ==
    [confidence_score |-> 950,
     doctor_info |-> Some(DoctorInfo(Some(<<"Dr.", "Sharma">>), ValidRegistration, None)),
     diagnosis |-> Some(<<"Viral", "fever">>),
     procedures |-> <<>>,
     diagnostic_tests |-> <<>>,
     costs |-> Some(CostBreakdown(Rupees(1000), 0, Rupees(500), 0, 0, Rupees(1500))),
     dates |-> Some(DateInfo(Date("%Y-%m-%d", 305), None, None)),
     hospital_name |-> None]

\* previous_claims with n_same claims dated day and n_other claims of another date
PreviousClaims(n_same, n_other, day) ==
    [i \in 1..(n_same + n_other) |->
        [date |-> IF i <= n_same THEN Date("%Y-%m-%d", day) ELSE Date("%Y-%m-%d", 100)]]

\* member_tc001 of test_adjudication.py
ExampleMember ==
    [policy_start_date |-> [fmt |-> "%Y-%m-%d", day |-> 0],
     policy_status |-> <<"active">>,
     ytd_claims |-> 0,
     previous_claims |-> <<>>]

ConfidenceValues == {950, 500}

DoctorValues ==
    {None,
     Some(DoctorInfo(None, ValidRegistration, None)),
     Some(DoctorInfo(Some(<<"Dr.", "Sharma">>), None, None)),
     Some(DoctorInfo(Some(<<"Dr.", "Sharma">>), Some(<<"45678">>), None)),
     Some(DoctorInfo(Some(<<"Dr.", "Sharma">>), ValidRegistration, None)),
     Some(DoctorInfo(Some(<<"Dr.", "Sharma">>), ValidRegistration,
                     Some(<<"Apollo", "Hospitals">>)))}

DiagnosisValues ==
    {None, Some(<<>>), Some(<<"Viral", "fever">>), Some(<<"Type", "2", "Diabetes">>),
     Some(<<"Hypertension">>), Some(<<"High", "blood", "pressure">>),
     Some(<<"General", "weakness">>), Some(<<"Obesity">>)}

ProcedureValues ==
    {<<>>,
     <<[name |-> <<"Teeth", "Whitening">>]>>,
     <<[name |-> <<"Weight", "loss", "program">>]>>,
     <<[name |-> <<"Root", "Canal">>], [name |-> <<"Weight", "loss", "program">>]>>}

TestValues == {<<>>, <<<<"MRI">>>>, <<<<"Blood", "tests">>>>}

CostValues ==
    {None,
     Some(CostBreakdown(Rupees(1000), 0, Rupees(500), 0, 0, Rupees(1500))),
     Some(CostBreakdown(Rupees(1000), 0, 0, 0, 0, Rupees(1000))),
     Some(CostBreakdown(Rupees(300), 0, 0, 0, 0, Rupees(300))),
     Some(CostBreakdown(Rupees(800), Rupees(400), 0, 0, 0, 0)),
     Some(CostBreakdown(Rupees(3000), Rupees(2000), 0, 0, 0, Rupees(5000))),
     Some(CostBreakdown(Rupees(20000), 0, 0, 0, 0, Rupees(20000))),
     Some(CostBreakdown(Rupees(20000), 0, 0, 0, 0, Rupees(1200)))}

DateValues ==
    {None,
     Some(DateInfo(None, None, Date("%Y-%m-%d", 305))),
     Some(DateInfo(Date("%Y-%m-%d", 305), None, None)),
     Some(DateInfo(Date("%d/%m/%Y", 10), None, None)),
     Some(DateInfo(Date("%Y-%m-%d", 60), None, None)),
     Some(DateInfo(Date("text", 0), None, None)),
     Some(DateInfo(Date("%Y-%m-%d", 305), None, Date("%Y-%m-%d", 320)))}

HospitalValues == {None, Some(<<"Apollo", "Hospitals">>), Some(<<"City", "Clinic">>)}

StatusValues == {<<"active">>, <<"Active">>, <<"lapsed">>}

StartDateValues == {[fmt |-> "%Y-%m-%d", day |-> 0], [fmt |-> "%d/%m/%Y", day |-> 0]}

YtdValues == {0, Rupees(9500), Rupees(48000), Rupees(49900), Rupees(50000)}

PreviousClaimsValues ==
    {PreviousClaims(0, 0, 305), PreviousClaims(3, 0, 305),
     PreviousClaims(0, 5, 305), PreviousClaims(2, 8, 305)}

\* the number of fields in which a request differs from the example
Deviations(ed, mi) ==
    Cardinality({f \in DOMAIN ExampleData : ed[f] # ExampleData[f]})
    + Cardinality({f \in DOMAIN ExampleMember : mi[f] # ExampleMember[f]})

---------------------------------------------------------------------------
(* The tables and requests of process_claim (api/routes/claims_supabase.py) *)

\* how many process_claim requests arrive
MaxRequests == 2

Requests == 1..MaxRequests

\* the claims of the one member
ClaimIds == {"CLM_1", "CLM_2"}

\* ProcessingResult of DocumentProcessor.process_document
ProcessingResult(success, data) == [success |-> success, data |-> data]

\* what the processor extracts from a prescription: no costs, no hospital
PrescriptionData == [ExampleData EXCEPT !.costs = None]

\* a prescription that states a fee and the clinic
PrescriptionWithFee == [ExampleData EXCEPT !.hospital_name = Some(<<"City", "Clinic">>)]

\* a prescription without a diagnosis
PrescriptionNoDiagnosis == [ExampleData EXCEPT !.costs = None, !.diagnosis = None]

\* what the processor extracts from a bill
BillData ==
    [confidence_score |-> 900,
     doctor_info |-> None,
     diagnosis |-> None,
     procedures |-> <<>>,
     diagnostic_tests |-> <<>>,
     costs |-> Some(CostBreakdown(Rupees(1000), 0, 0, 0, 0, Rupees(1000))),
     dates |-> Some(DateInfo(None, None, Date("%Y-%m-%d", 305))),
     hospital_name |-> Some(<<"Apollo", "Hospitals">>)]

\* a bill from which neither the costs nor the hospital could be read
BillDataBlank == [BillData EXCEPT !.costs = None, !.hospital_name = Some(<<>>)]

\* the two documents of a claim, as the processor reads them
PrescriptionAndBill ==
    [prescription |-> ProcessingResult(TRUE, PrescriptionData),
     bill |-> ProcessingResult(TRUE, BillData)]

DocumentPairs ==
    {PrescriptionAndBill,
     [prescription |-> ProcessingResult(TRUE, PrescriptionWithFee),
      bill |-> ProcessingResult(TRUE, BillDataBlank)],
     [prescription |-> ProcessingResult(TRUE, PrescriptionNoDiagnosis),
      bill |-> ProcessingResult(TRUE, BillData)],
     [prescription |-> ProcessingResult(TRUE, PrescriptionData),
      bill |-> ProcessingResult(FALSE, None)]}

\* a row of the claims table as upload_claim leaves it
PendingClaim ==
    [status |-> "PENDING", decision |-> None, approved_amount |-> 0,
     consultation_date |-> None, decisions |-> 0]

\* the member's row, the claims rows and the documents; ytd_at_start is history
Database(ytd_claims, documents) ==
    [ytd_claims |-> ytd_claims,
     ytd_at_start |-> ytd_claims,
     claims |-> [c \in ClaimIds |-> PendingClaim],
     documents |-> documents]

\* a request that has not arrived yet
IdleRequest ==
    [pc |-> "idle", claim |-> None, member_ytd_claims |-> 0,
     prescription_result |-> None, bill_result |-> None, finished_first |-> None,
     merged_data |-> None, decision |-> None]

---------------------------------------------------------------------------
(* The state machine: a caller fills in its request and calls the engine *)

Init ==
    /\ policy_terms \in Policies
    /\ extracted_data = ExampleData
    /\ member_info = ExampleMember
    /\ decision = None
    /\ first_call = None
    /\ db = Database(0, [c \in ClaimIds |-> PrescriptionAndBill])
    /\ requests = [p \in Requests |-> IdleRequest]

\* the caller, holding no decision, assigns a field of its ExtractedData
SetClaimField(field, value) ==
    /\ decision = None
    /\ extracted_data' = [extracted_data EXCEPT ![field] = value]
    /\ extracted_data' # extracted_data
    /\ Deviations(extracted_data', member_info) <= MaxDeviations
    /\ decision' = None
    /\ UNCHANGED <<policy_terms, member_info, first_call, db, requests>>

\* the caller assigns a field of its MemberInfo
SetMemberField(field, value) ==
    /\ decision = None
    /\ member_info' = [member_info EXCEPT ![field] = value]
    /\ member_info' # member_info
    /\ Deviations(extracted_data, member_info') <= MaxDeviations
    /\ decision' = None
    /\ UNCHANGED <<policy_terms, extracted_data, first_call, db, requests>>

\* a variant of Call: the engine keeps a running total in its loaded policy
CallConsumingLimit ==
    LET d == adjudicate_claim(extracted_data, member_info) IN
    /\ decision' = Some(d)
    /\ policy_terms' =
          IF "coverage_details" \in DOMAIN policy_terms /\ d.approved_amount > 0
          THEN [policy_terms EXCEPT !.coverage_details.annual_limit =
                                        @ - d.approved_amount]
          ELSE policy_terms
    /\ UNCHANGED <<extracted_data, member_info>>

\* a variant of Call: the engine adds what it approved to the member's ytd_claims
CallUpdatingYtd ==
    LET d == adjudicate_claim(extracted_data, member_info) IN
    /\ decision' = Some(d)
    /\ member_info' =
          IF d.decision \in {"APPROVED", "PARTIAL"} /\ d.approved_amount > 0
          THEN [member_info EXCEPT !.ytd_claims = @ + d.approved_amount]
          ELSE member_info
    /\ UNCHANGED <<policy_terms, extracted_data>>

\* decision = engine.adjudicate_claim(extracted_data, member_info): the call
\* assigns nothing but its result
Call ==
    /\ decision' = Some(adjudicate_claim(extracted_data, member_info))
    /\ UNCHANGED <<policy_terms, extracted_data, member_info>>

AdjudicateClaim ==
    /\ Call
    /\ UNCHANGED <<first_call, db, requests>>

\* the caller is done with the decision and turns to its next request
DropDecision ==
    /\ decision # None
    /\ decision' = None
    /\ UNCHANGED <<policy_terms, extracted_data, member_info, first_call, db, requests>>

Next ==
    \/ \E v \in ConfidenceValues : SetClaimField("confidence_score", v)
    \/ \E v \in DoctorValues : SetClaimField("doctor_info", v)
    \/ \E v \in DiagnosisValues : SetClaimField("diagnosis", v)
    \/ \E v \in ProcedureValues : SetClaimField("procedures", v)
    \/ \E v \in TestValues : SetClaimField("diagnostic_tests", v)
    \/ \E v \in CostValues : SetClaimField("costs", v)
    \/ \E v \in DateValues : SetClaimField("dates", v)
    \/ \E v \in HospitalValues : SetClaimField("hospital_name", v)
    \/ \E v \in StatusValues : SetMemberField("policy_status", v)
    \/ \E v \in StartDateValues : SetMemberField("policy_start_date", v)
    \/ \E v \in YtdValues : SetMemberField("ytd_claims", v)
    \/ \E v \in PreviousClaimsValues : SetMemberField("previous_claims", v)
    \/ AdjudicateClaim
    \/ DropDecision

Spec == Init /\ [][Next]_vars

\* Repeated calls: the first call is recorded, with whether a call with other
\* arguments followed it; the caller varies the costs and the year-to-date amount.
SameArguments ==
    /\ first_call # None
    /\ Val(first_call).extracted_data = extracted_data
    /\ Val(first_call).member_info = member_info

AdjudicateClaimRecorded ==
    /\ Call
    /\ first_call' =
          IF first_call = None
          THEN Some([extracted_data |-> extracted_data, member_info |-> member_info,
                     decision |-> Val(decision'), other_call_since |-> FALSE])
          ELSE IF SameArguments THEN first_call
          ELSE Some([Val(first_call) EXCEPT !.other_call_since = TRUE])
    /\ UNCHANGED <<db, requests>>

NextRepeat ==
    \/ \E v \in CostValues : SetClaimField("costs", v)
    \/ \E v \in YtdValues : SetMemberField("ytd_claims", v)
    \/ AdjudicateClaimRecorded
    \/ DropDecision

SpecRepeat == Init /\ [][NextRepeat]_vars

---------------------------------------------------------------------------
(* Properties *)

Returned == decision # None

D == Val(decision)

FraudRisk == calculate_fraud_risk_score(detect_fraud(extracted_data, member_info))

ClaimedTotal == Val(extracted_data.costs).total

Remaining == get_annual_limit - member_info.ytd_claims

HasReason(d, code) ==
    \E i \in 1..Len(d.rejection_reasons) : d.rejection_reasons[i].code = code

\* the fraud gate lets the claim through and steps 1 to 3 pass
PassesStepsOneToThree ==
    /\ FraudRisk < 50
    /\ _check_eligibility(extracted_data, member_info).pass
    /\ _validate_documents(extracted_data).pass
    /\ _verify_coverage(extracted_data).pass

SumOfDeductions(d) ==
    d.deductions.copay + d.deductions.non_covered_items
    + d.deductions.exceeded_limits + d.deductions.network_discount

\* C1: every returned decision has 0 <= approved_amount <= claimed_amount
\* (all cost components and ytd_claims of the model's inputs are non-negative).
C1_ApprovedWithinClaimed ==
    Returned => (D.approved_amount >= 0 /\ D.approved_amount <= D.claimed_amount)

\* C2: whenever the risk score of the claim's fraud flags is >= 0.5 the call
\* returns MANUAL_REVIEW with all five steps SKIPPED and no rejection reasons.
C2_FraudGatePrecedence ==
    (Returned /\ FraudRisk >= 50) =>
        /\ D.decision = "MANUAL_REVIEW"
        /\ D.adjudication_steps = AdjudicationSteps
        /\ D.rejection_reasons = <<>>

\* a claim escalated at risk exactly 0.5 or more whose eligibility check would fail
C2_Witness ==
    /\ Returned
    /\ FraudRisk >= 50
    /\ ~_check_eligibility(extracted_data, member_info).pass
    /\ D.decision = "MANUAL_REVIEW"

\* C3: every REJECTED decision has approved_amount = 0, also when the rejection
\* comes from the medical-necessity step after the limits step.
C3_RejectedApprovesNothing ==
    (Returned /\ D.decision = "REJECTED") => D.approved_amount = 0

\* C4: every APPROVED or PARTIAL decision has
\* approved_amount = claimed_amount - (sum of the four deductions).
C4_ApprovedIsClaimedMinusDeductions ==
    (Returned /\ D.decision \in {"APPROVED", "PARTIAL"}) =>
        D.approved_amount = D.claimed_amount - SumOfDeductions(D)

\* C5: when the gate and steps 1-3 pass, the total is within the minimum and
\* per-claim limits and 0 < remaining < total, the limits step is WARNING, the
\* decision PARTIAL, exceeded_limits = total - remaining, ANNUAL_LIMIT_EXCEEDED is
\* among the reasons and, without a network hospital, approved = remaining - copay.
C5_PartialAtAnnualLimit ==
    (/\ Returned
     /\ PassesStepsOneToThree
     /\ extracted_data.costs # None
     /\ ClaimedTotal >= get_minimum_claim_amount
     /\ ClaimedTotal <= get_per_claim_limit
     /\ 0 < Remaining
     /\ Remaining < ClaimedTotal) =>
        /\ D.adjudication_steps.limits = "WARNING"
        /\ D.decision = "PARTIAL"
        /\ D.deductions.exceeded_limits = ClaimedTotal - Remaining
        /\ HasReason(D, "ANNUAL_LIMIT_EXCEEDED")
        /\ (~D.is_network_hospital => D.approved_amount = Remaining - D.deductions.copay)

\* C6: with everything else equal, a larger ytd_claims (up to the annual limit)
\* never gets a larger approved_amount.
C6_MonotoneInYtd ==
    Returned =>
        \A ytd2 \in YtdValues :
            (member_info.ytd_claims <= ytd2 /\ ytd2 <= get_annual_limit) =>
                adjudicate_claim(extracted_data,
                                 [member_info EXCEPT !.ytd_claims = ytd2]).approved_amount
                    <= D.approved_amount

\* C8: every call returns (no exception escapes) one decision whose value is
\* APPROVED, REJECTED, PARTIAL or MANUAL_REVIEW, never NOT_A_MEMBER.
C8_Total ==
    Returned =>
        /\ ~D.raised
        /\ D.decision \in {"APPROVED", "REJECTED", "PARTIAL", "MANUAL_REVIEW"}

\* a call that returned although strptime raised inside the eligibility check
C8_Witness ==
    /\ Returned
    /\ FraudRisk < 50
    /\ Lower(member_info.policy_status) = <<"active">>
    /\ extracted_data.dates # None
    /\ Val(extracted_data.dates).consultation_date # None
    /\ WaitingPeriodCheck(extracted_data, member_info).outcome = "raise"
    /\ D.decision \in {"APPROVED", "REJECTED", "PARTIAL"}

\* the policy is active, both dates parse and the consultation lies fewer days
\* after the policy start than the initial waiting period
InInitialWaitingPeriod ==
    /\ FraudRisk < 50
    /\ Lower(member_info.policy_status) = <<"active">>
    /\ extracted_data.dates # None
    /\ Val(extracted_data.dates).consultation_date # None
    /\ Strptime(Val(Val(extracted_data.dates).consultation_date)).ok
    /\ Strptime(member_info.policy_start_date).ok
    /\ Strptime(Val(Val(extracted_data.dates).consultation_date)).day
         - Strptime(member_info.policy_start_date).day < get_waiting_period("initial")

\* C9: in the initial waiting period the decision is REJECTED, the eligibility
\* step FAIL, and the only rejection reason has code WAITING_PERIOD.
C9_WaitingPeriodRejects ==
    (Returned /\ InInitialWaitingPeriod) =>
        /\ D.decision = "REJECTED"
        /\ D.adjudication_steps.eligibility = "FAIL"
        /\ Len(D.rejection_reasons) = 1
        /\ D.rejection_reasons[1].code = "WAITING_PERIOD"

C9_Witness ==
    /\ Returned
    /\ InInitialWaitingPeriod
    /\ D.decision = "REJECTED"

NoDeductions(d) == d.deductions = Deductions

\* C10 as stated: when the gate and steps 1-3 pass and the total exceeds the
\* per-claim limit, the decision is REJECTED with a PER_CLAIM_EXCEEDED reason,
\* approved_amount 0 and all deductions 0.
C10_PerClaimExceeded_Original ==
    (/\ Returned
     /\ PassesStepsOneToThree
     /\ extracted_data.costs # None
     /\ ClaimedTotal > get_per_claim_limit) =>
        /\ D.decision = "REJECTED"
        /\ HasReason(D, "PER_CLAIM_EXCEEDED")
        /\ D.approved_amount = 0
        /\ NoDeductions(D)

\* C10 amended: the same, for a total that is not below the minimum claim amount.
C10_PerClaimExceeded ==
    (/\ Returned
     /\ PassesStepsOneToThree
     /\ extracted_data.costs # None
     /\ ClaimedTotal >= get_minimum_claim_amount
     /\ ClaimedTotal > get_per_claim_limit) =>
        /\ D.decision = "REJECTED"
        /\ HasReason(D, "PER_CLAIM_EXCEEDED")
        /\ D.approved_amount = 0
        /\ NoDeductions(D)

C10_Witness ==
    /\ Returned
    /\ PassesStepsOneToThree
    /\ extracted_data.costs # None
    /\ ClaimedTotal >= get_minimum_claim_amount
    /\ ClaimedTotal > get_per_claim_limit
    /\ get_per_claim_limit > 0
    /\ HasReason(D, "PER_CLAIM_EXCEEDED")


---------------------------------------------------------------------------
(* The documents step *)

GateAndEligibilityPass ==
    /\ FraudRisk < 50
    /\ _check_eligibility(extracted_data, member_info).pass

DoctorNameAbsent ==
    \/ extracted_data.doctor_info = None
    \/ Val(extracted_data.doctor_info).name = None
    \/ Val(Val(extracted_data.doctor_info).name) = <<>>

\* the registration number is absent, or holds neither "/" nor "-"
RegistrationUnusable ==
    LET reg == Val(extracted_data.doctor_info).registration_number IN
    \/ reg = None
    \/ Val(reg) = <<>>
    \/ \A i \in 1..Len(Val(reg)) : Val(reg)[i] \notin {"/", "-"}

ConsultationDateAbsent ==
    \/ extracted_data.dates = None
    \/ Val(extracted_data.dates).consultation_date = None

\* the code the documents step must give, "none" when nothing is missing
ExpectedDocumentsCode ==
    IF DoctorNameAbsent THEN "MISSING_DOCUMENTS"
    ELSE IF RegistrationUnusable THEN "DOCTOR_REG_INVALID"
    ELSE IF ConsultationDateAbsent THEN "DATE_MISMATCH"
    ELSE "none"

\* C11: when the fraud gate and eligibility pass, the first of (doctor name
\* absent, registration absent or without "/" and "-", consultation date absent)
\* that applies gives the single rejection reason (MISSING_DOCUMENTS,
\* DOCTOR_REG_INVALID, DATE_MISMATCH); the decision is REJECTED, documents FAIL.
C11_DocumentsOrder ==
    (Returned /\ GateAndEligibilityPass /\ ExpectedDocumentsCode # "none") =>
        /\ D.decision = "REJECTED"
        /\ D.adjudication_steps.documents = "FAIL"
        /\ Len(D.rejection_reasons) = 1
        /\ D.rejection_reasons[1].code = ExpectedDocumentsCode

\* a rejected request that lacks both the doctor's name and the consultation date
C11_Witness ==
    /\ Returned
    /\ GateAndEligibilityPass
    /\ DoctorNameAbsent
    /\ ConsultationDateAbsent
    /\ D.adjudication_steps.documents = "FAIL"

---------------------------------------------------------------------------
(* Copay and approval *)

AllStepsPass(d) ==
    \A step \in DOMAIN d.adjudication_steps : d.adjudication_steps[step] = "PASS"

\* the bill's hospital name, else the doctor's clinic name
ResolvedHospital ==
    IF extracted_data.hospital_name # None /\ Val(extracted_data.hospital_name) # <<>>
    THEN extracted_data.hospital_name
    ELSE IF extracted_data.doctor_info # None
    THEN Val(extracted_data.doctor_info).clinic_name
    ELSE None

AtNetworkHospital ==
    /\ ResolvedHospital # None
    /\ Val(ResolvedHospital) # <<>>
    /\ is_network_hospital(Val(ResolvedHospital))

\* no escalation, five steps passed, the annual limit not exceeded, no network hospital
PlainApprovalCase ==
    /\ Returned
    /\ FraudRisk < 50
    /\ AllStepsPass(D)
    /\ member_info.ytd_claims + ClaimedTotal <= get_annual_limit
    /\ ~AtNetworkHospital

\* C12: without escalation, with all five steps passed, ytd_claims + claimed
\* within the annual limit and no network hospital, the decision is APPROVED,
\* copay = consultation * consultation copay % + medicines * pharmacy copay %
\* and approved_amount = claimed total - copay.
C12_CopayFormula ==
    PlainApprovalCase =>
        LET costs == Val(extracted_data.costs)
            copay == (costs.consultation \div 100) * get_consultation_copay
                     + (costs.medicines \div 100) * get_pharmacy_copay
        IN  /\ D.decision = "APPROVED"
            /\ D.deductions.copay = copay
            /\ D.approved_amount = costs.total - copay

\* an approval whose copay has a consultation part and a pharmacy part
C12_Witness ==
    /\ PlainApprovalCase
    /\ Val(extracted_data.costs).consultation > 0
    /\ Val(extracted_data.costs).medicines > 0
    /\ get_consultation_copay > 0
    /\ get_pharmacy_copay > 0
    /\ D.decision = "APPROVED"

---------------------------------------------------------------------------
(* Fraud risk *)

\* the sum the stated weights give the flags of the request, in hundredths:
\* same-day 0.30, frequency 0.25, suspicious amount 0.15, vague diagnosis 0.10,
\* date span or cost discrepancy 0.20, missing registration 0.15
StatedRisk ==
    LET ed == extracted_data
        mi == member_info
        sum == 30 * Len(_check_multiple_claims_same_day(ed, mi))
               + 25 * Len(_check_claim_frequency(mi))
               + 15 * Len(_check_suspicious_amounts(ed))
               + 10 * Len(_check_diagnosis_appropriateness(ed))
               + 20 * (Len(DateSpanFlags(ed)) + Len(CostMismatchFlags(ed)))
               + 15 * Len(MissingRegistrationFlags(ed))
    IN  IF sum <= 100 THEN sum ELSE 100

\* C13: for the flag list detect_fraud produces, calculate_fraud_risk_score
\* returns min(1.0, sum of the stated per-flag weights).
C13_RiskWeights ==
    Returned => FraudRisk = StatedRisk

SameDayFlag == <<"Multiple", "claims", "on", "same", "day", "(", "n", "total", ")">>

HasSameDayFlag(d) == \E i \in 1..Len(d.fraud_flags) : d.fraud_flags[i] = SameDayFlag

\* how many previous claims carry the consultation date of the request
SameDayPreviousClaims ==
    Cardinality({i \in 1..Len(member_info.previous_claims) :
                    member_info.previous_claims[i].date
                        = Val(extracted_data.dates).consultation_date})

\* C14: the same-day flag is raised exactly when the request has a consultation
\* date that at least 2 previous claims carry; when it is the only flag the risk
\* is 0.30, the claim is not sent to MANUAL_REVIEW and the rule steps run.
C14_SameDayFlag ==
    Returned =>
        /\ HasSameDayFlag(D) <=>
               (/\ ~ConsultationDateAbsent
                /\ SameDayPreviousClaims >= 2)
        /\ D.fraud_flags = <<SameDayFlag>> =>
               (/\ FraudRisk = 30
                /\ D.decision # "MANUAL_REVIEW"
                /\ D.adjudication_steps.eligibility # "SKIPPED")

\* three earlier claims on the day, nothing else flagged, all five steps run
C14_Witness ==
    /\ Returned
    /\ SameDayPreviousClaims = 3
    /\ D.fraud_flags = <<SameDayFlag>>
    /\ AllStepsPass(D)
    /\ D.decision = "APPROVED"

---------------------------------------------------------------------------
(* What every returned decision carries *)

\* C15: every returned decision carries the confidence its final value
\* prescribes: 0.5 when MANUAL_REVIEW, min(extraction confidence + 0.1, 1.0)
\* when REJECTED, at whichever step the call returned.
C15_ConfidenceOnEveryPath ==
    Returned =>
        /\ D.decision = "MANUAL_REVIEW" => D.confidence_score = 500
        /\ D.decision = "REJECTED" =>
               D.confidence_score =
                   (IF extracted_data.confidence_score + 100 <= 1000
                    THEN extracted_data.confidence_score + 100 ELSE 1000)

\* C16: on every return path notes and next_steps are the non-empty template
\* texts of the decision's final value.
C16_FullyPopulated ==
    Returned =>
        /\ D.notes # <<>>
        /\ D.next_steps # <<>>
        /\ D.notes = _generate_notes(D)
        /\ D.next_steps = _generate_next_steps(D)

---------------------------------------------------------------------------
(* Network hospital benefits *)

\* the approved amount the limits step returned
ApprovedAfterLimits == _check_limits(extracted_data, member_info).approved_amount

\* the amount claimed: the total of the costs, 0 without costs
OriginalClaimed ==
    IF extracted_data.costs # None THEN Val(extracted_data.costs).total ELSE 0

\* C17: when the medical-necessity step passed and the resolved hospital name
\* matches a network hospital, is_network_hospital is true, network_discount is
\* (approved amount after the limits step) * network discount %, approved_amount
\* is reduced by exactly that, and cashless_approved holds exactly when the
\* claimed amount <= the instant-approval limit; when the name is absent or does
\* not match, is_network_hospital and cashless_approved are false and
\* network_discount is 0.
C17_NetworkBenefits ==
    Returned =>
        /\ (D.adjudication_steps.medical_necessity = "PASS" /\ AtNetworkHospital) =>
               LET discount == (ApprovedAfterLimits \div 100) * get_network_discount IN
               /\ D.is_network_hospital
               /\ D.deductions.network_discount = discount
               /\ D.approved_amount = ApprovedAfterLimits - discount
               /\ D.cashless_approved <=> (OriginalClaimed <= get_instant_approval_limit)
        /\ ~AtNetworkHospital =>
               /\ ~D.is_network_hospital
               /\ ~D.cashless_approved
               /\ D.deductions.network_discount = 0

\* a discounted, cashless approval at a network hospital after a copay
C17_Witness ==
    /\ Returned
    /\ D.adjudication_steps.medical_necessity = "PASS"
    /\ AtNetworkHospital
    /\ D.deductions.copay > 0
    /\ D.deductions.network_discount > 0
    /\ D.cashless_approved

---------------------------------------------------------------------------
(* The frame of a call *)

\* C18: a step in which adjudicate_claim hands back a decision leaves
\* member_info (ytd_claims and previous_claims included), the extracted claim
\* data and the loaded policy as they were, on every decision path.
C18_InputsUnchanged ==
    [][(decision' # None /\ decision' # decision) =>
          /\ member_info' = member_info
          /\ extracted_data' = extracted_data
          /\ policy_terms' = policy_terms]_vars

\* an approval for a member with claims this year and a claim history
C18_Witness ==
    /\ Returned
    /\ D.decision \in {"APPROVED", "PARTIAL"}
    /\ D.approved_amount > 0
    /\ member_info.ytd_claims > 0
    /\ member_info.previous_claims # <<>>

---------------------------------------------------------------------------
(* api/routes/claims_supabase.py: process_claim, one action per database   *)
(* call or task completion; requests for claims of one member interleave   *)

\* a variant of merge: the bill's costs and hospital name always overwrite
merge_bill_overwrites(prescription_result, bill_result) ==
    [prescription_result.data EXCEPT !.costs = bill_result.data.costs,
                                     !.hospital_name = bill_result.data.hospital_name]

\* lines 478-483: merged_data is the prescription's data with the bill's costs
\* and hospital name assigned when the bill has them
merge(prescription_result, bill_result) ==
    LET base == prescription_result.data
        with_costs ==
            IF bill_result.data.costs # None
            THEN [base EXCEPT !.costs = bill_result.data.costs] ELSE base
    IN  IF Truthy(bill_result.data.hospital_name)
        THEN [with_costs EXCEPT !.hospital_name = bill_result.data.hospital_name]
        ELSE with_costs

\* lines 415-422: select the claim with its member; 400 when already COMPLETED.
\* Requests are numbered in the order in which they arrive.
Fetch(p, c) ==
    /\ requests[p].pc = "idle"
    /\ IF p = 1 THEN TRUE ELSE requests[p - 1].pc # "idle"
    /\ requests' =
          [requests EXCEPT ![p] =
              IF db.claims[c].status = "COMPLETED"
              THEN [@ EXCEPT !.pc = "already_processed", !.claim = Some(c)]
              ELSE [@ EXCEPT !.pc = "fetched", !.claim = Some(c),
                             !.member_ytd_claims = db.ytd_claims]]
    /\ UNCHANGED <<policy_terms, extracted_data, member_info, decision, first_call, db>>

\* line 425: status PROCESSING
MarkProcessing(p) ==
    /\ requests[p].pc = "fetched"
    /\ db' = [db EXCEPT !.claims[Val(requests[p].claim)].status = "PROCESSING"]
    /\ requests' = [requests EXCEPT ![p].pc = "extracting"]
    /\ UNCHANGED <<policy_terms, extracted_data, member_info, decision, first_call>>

\* lines 462-465: the prescription task of asyncio.gather completes
FinishPrescription(p) ==
    /\ requests[p].pc = "extracting"
    /\ requests[p].prescription_result = None
    /\ requests' =
          [requests EXCEPT
              ![p].prescription_result =
                  Some(db.documents[Val(requests[p].claim)].prescription),
              ![p].finished_first =
                  IF requests[p].bill_result = None THEN Some("prescription") ELSE @]
    /\ UNCHANGED <<policy_terms, extracted_data, member_info, decision, first_call, db>>

\* lines 462-465: the bill task of asyncio.gather completes
FinishBill(p) ==
    /\ requests[p].pc = "extracting"
    /\ requests[p].bill_result = None
    /\ requests' =
          [requests EXCEPT
              ![p].bill_result = Some(db.documents[Val(requests[p].claim)].bill),
              ![p].finished_first =
                  IF requests[p].prescription_result = None THEN Some("bill") ELSE @]
    /\ UNCHANGED <<policy_terms, extracted_data, member_info, decision, first_call, db>>

\* lines 471-483: both results are in; a failed extraction raises, else merge
Merge(p) ==
    /\ requests[p].pc = "extracting"
    /\ requests[p].prescription_result # None
    /\ requests[p].bill_result # None
    /\ LET prescription_result == Val(requests[p].prescription_result)
           bill_result == Val(requests[p].bill_result)
       IN  requests' =
              [requests EXCEPT ![p] =
                  IF ~prescription_result.success \/ ~bill_result.success
                  THEN [@ EXCEPT !.pc = "raised"]
                  ELSE [@ EXCEPT !.pc = "merged",
                                 !.merged_data =
                                     Some(merge(prescription_result, bill_result))]]
    /\ UNCHANGED <<policy_terms, extracted_data, member_info, decision, first_call, db>>

\* lines 496-503: one entry per other claim of the member
RECURSIVE previous_claims_of(_)
previous_claims_of(others) ==
    IF others = {} THEN <<>>
    ELSE LET c == CHOOSE x \in others : TRUE IN
         <<[date |-> db.claims[c].consultation_date]>>
         \o previous_claims_of(others \ {c})

\* lines 505-512: AdjMemberInfo from the member fetched with the claim
adj_member_info(p) ==
    [ExampleMember EXCEPT
        !.ytd_claims = requests[p].member_ytd_claims,
        !.previous_claims = previous_claims_of(ClaimIds \ {Val(requests[p].claim)})]

\* lines 486-517: select the member's other claims and adjudicate
Adjudicate(p) ==
    /\ requests[p].pc = "merged"
    /\ requests' =
          [requests EXCEPT
              ![p].pc = "adjudicated",
              ![p].decision =
                  Some(adjudicate_claim(Val(requests[p].merged_data), adj_member_info(p)))]
    /\ UNCHANGED <<policy_terms, extracted_data, member_info, decision, first_call, db>>

\* lines 521-553: the claim row is COMPLETED and the decision record inserted
SaveDecision(p) ==
    LET merged_data == Val(requests[p].merged_data)
        d == Val(requests[p].decision)
    IN  /\ requests[p].pc = "adjudicated"
        /\ db' = [db EXCEPT !.claims[Val(requests[p].claim)] =
                      [status |-> "COMPLETED",
                       decision |-> Some(d.decision),
                       approved_amount |-> d.approved_amount,
                       consultation_date |->
                           IF merged_data.dates # None
                           THEN Val(merged_data.dates).consultation_date ELSE None,
                       decisions |-> @.decisions + 1]]
        /\ requests' = [requests EXCEPT ![p].pc = "saved"]
        /\ UNCHANGED <<policy_terms, extracted_data, member_info, decision, first_call>>

\* lines 555-558: ytd_claims of the member fetched at the start plus the
\* approved amount is written when the decision is APPROVED or PARTIAL
UpdateYtd(p) ==
    LET d == Val(requests[p].decision) IN
    /\ requests[p].pc = "saved"
    /\ db' = IF d.decision \in {"APPROVED", "PARTIAL"}
             THEN [db EXCEPT !.ytd_claims =
                                 requests[p].member_ytd_claims + d.approved_amount]
             ELSE db
    /\ requests' = [requests EXCEPT ![p].pc = "done"]
    /\ UNCHANGED <<policy_terms, extracted_data, member_info, decision, first_call>>

\* lines 586-588: except Exception: status FAILED, HTTP 500
MarkFailed(p) ==
    /\ requests[p].pc = "raised"
    /\ db' = [db EXCEPT !.claims[Val(requests[p].claim)].status = "FAILED"]
    /\ requests' = [requests EXCEPT ![p].pc = "failed"]
    /\ UNCHANGED <<policy_terms, extracted_data, member_info, decision, first_call>>

YtdAtStartValues == {0, Rupees(9000), Rupees(9500)}

\* the engine of every request loads the same policy document
InitProcess ==
    /\ policy_terms = SmallPolicy
    /\ extracted_data = ExampleData
    /\ member_info = ExampleMember
    /\ decision = None
    /\ first_call = None
    /\ \E ytd \in YtdAtStartValues, documents \in [ClaimIds -> DocumentPairs] :
           db = Database(ytd, documents)
    /\ requests = [p \in Requests |-> IdleRequest]

NextProcess ==
    \/ \E p \in Requests, c \in ClaimIds : Fetch(p, c)
    \/ \E p \in Requests : MarkProcessing(p)
    \/ \E p \in Requests : FinishPrescription(p)
    \/ \E p \in Requests : FinishBill(p)
    \/ \E p \in Requests : Merge(p)
    \/ \E p \in Requests : Adjudicate(p)
    \/ \E p \in Requests : SaveDecision(p)
    \/ \E p \in Requests : UpdateYtd(p)
    \/ \E p \in Requests : MarkFailed(p)

SpecProcess == InitProcess /\ [][NextProcess]_vars

---------------------------------------------------------------------------
(* Properties of process_claim *)

\* the requests whose results have been merged
MergedRequests == {p \in Requests : requests[p].merged_data # None}

\* C19: the merged data equal the prescription's data P in every field, except
\* that costs are the bill's when the bill B has costs and hospital_name is the
\* bill's when B has a non-empty one; nothing depends on which of the two
\* extractions finished first.
C19_MergeRule ==
    \A p \in MergedRequests :
        LET P == Val(requests[p].prescription_result).data
            B == Val(requests[p].bill_result).data
            merged == Val(requests[p].merged_data)
        IN  /\ \A f \in DOMAIN P \ {"costs", "hospital_name"} : merged[f] = P[f]
            /\ merged.costs = IF B.costs # None THEN B.costs ELSE P.costs
            /\ merged.hospital_name =
                   IF B.hospital_name # None /\ Val(B.hospital_name) # <<>>
                   THEN B.hospital_name ELSE P.hospital_name

\* two requests merged the same documents, the bill read first in one and the
\* prescription first in the other; the bill had neither costs nor hospital
C19_Witness ==
    \E p, q \in MergedRequests :
        /\ requests[p].prescription_result = requests[q].prescription_result
        /\ requests[p].bill_result = requests[q].bill_result
        /\ requests[p].finished_first = Some("bill")
        /\ requests[q].finished_first = Some("prescription")
        /\ Val(requests[p].bill_result).data.costs = None
        /\ Val(requests[p].merged_data).costs # None

Completed == {"done", "failed", "already_processed"}

\* every request that arrived has run to its end, and at least one has
AllCompleted ==
    /\ \A p \in Requests : requests[p].pc \in Completed \cup {"idle"}
    /\ \E p \in Requests : requests[p].pc \in Completed

\* the approved amounts stored for those of the claims decided APPROVED or PARTIAL
RECURSIVE ApprovedSum(_)
ApprovedSum(claims) ==
    IF claims = {} THEN 0
    ELSE LET c == CHOOSE x \in claims : TRUE IN
         (IF db.claims[c].decision \in {Some("APPROVED"), Some("PARTIAL")}
          THEN db.claims[c].approved_amount ELSE 0)
         + ApprovedSum(claims \ {c})

\* C20: once all process_claim calls have completed, however they interleaved,
\* the stored ytd_claims is its initial value plus the approved amounts of the
\* claims decided APPROVED or PARTIAL.
C20_NoLostUpdate ==
    AllCompleted => db.ytd_claims = db.ytd_at_start + ApprovedSum(ClaimIds)

---------------------------------------------------------------------------
(* The order of the steps *)

StepOrder == <<"eligibility", "documents", "coverage", "limits", "medical_necessity">>

\* the steps after the i-th are all SKIPPED
LaterStepsSkipped(d, i) ==
    \A j \in (i + 1)..Len(StepOrder) : d.adjudication_steps[StepOrder[j]] = "SKIPPED"

\* C21: in every returned decision the steps that are not SKIPPED form a prefix
\* of eligibility, documents, coverage, limits, medical necessity; when
\* eligibility, documents or coverage (a full rejection) fails, the decision is
\* REJECTED and every later step is SKIPPED.
C21_StepOrder ==
    Returned =>
        /\ \A i, j \in 1..Len(StepOrder) :
               (i < j /\ D.adjudication_steps[StepOrder[j]] # "SKIPPED") =>
                   D.adjudication_steps[StepOrder[i]] # "SKIPPED"
        /\ D.adjudication_steps.eligibility = "FAIL" =>
               (D.decision = "REJECTED" /\ LaterStepsSkipped(D, 1))
        /\ D.adjudication_steps.documents = "FAIL" =>
               (D.decision = "REJECTED" /\ LaterStepsSkipped(D, 2))
        /\ (/\ D.adjudication_steps.coverage = "FAIL"
            /\ ~_verify_coverage(extracted_data).partial) =>
               (D.decision = "REJECTED" /\ LaterStepsSkipped(D, 3))

\* a rejection at the documents step of a request that has no costs either
C21_Witness ==
    /\ Returned
    /\ D.adjudication_steps.eligibility = "PASS"
    /\ D.adjudication_steps.documents = "FAIL"
    /\ extracted_data.costs = None
    /\ D.decision = "REJECTED"

---------------------------------------------------------------------------
(* The limits step *)

\* the reason the limits step gives when it fails, "none" when it does not:
\* costs absent, total below the minimum, total above the per-claim limit,
\* annual limit exhausted
LimitsFailureCode ==
    IF extracted_data.costs = None THEN "BELOW_MIN_AMOUNT"
    ELSE IF ClaimedTotal < get_minimum_claim_amount THEN "BELOW_MIN_AMOUNT"
    ELSE IF ClaimedTotal > get_per_claim_limit THEN "PER_CLAIM_EXCEEDED"
    ELSE IF /\ member_info.ytd_claims + ClaimedTotal > get_annual_limit
            /\ Remaining <= 0
    THEN "ANNUAL_LIMIT_EXCEEDED"
    ELSE "none"

\* C22: the limits step is never FAIL; when it is reached and fails its outcome
\* is WARNING, its rejection reason is kept, and the medical-necessity step is
\* still evaluated (PASS or FAIL, not SKIPPED).
C22_LimitsNeverStops ==
    Returned =>
        /\ D.adjudication_steps.limits # "FAIL"
        /\ (D.adjudication_steps.limits # "SKIPPED" /\ LimitsFailureCode # "none") =>
               /\ D.adjudication_steps.limits = "WARNING"
               /\ HasReason(D, LimitsFailureCode)
               /\ D.adjudication_steps.medical_necessity \in {"PASS", "FAIL"}

\* the limits step failed and the medical-necessity step failed after it
C22_Witness ==
    /\ Returned
    /\ LimitsFailureCode # "none"
    /\ D.adjudication_steps.limits = "WARNING"
    /\ D.adjudication_steps.medical_necessity = "FAIL"
    /\ Len(D.rejection_reasons) >= 2

---------------------------------------------------------------------------
(* The coverage step *)

\* the fraud gate, eligibility and documents let the claim through to coverage
CoverageReached == Returned /\ D.adjudication_steps.documents = "PASS"

\* an excluded diagnosis, a test that needs pre-authorization, or a weight-loss
\* procedure that is the only procedure
CoverageStops ==
    \/ /\ extracted_data.diagnosis # None
       /\ Val(extracted_data.diagnosis) # <<>>
       /\ is_excluded(Val(extracted_data.diagnosis))
    \/ \E i \in 1..Len(extracted_data.diagnostic_tests) :
           requires_pre_authorization(extracted_data.diagnostic_tests[i])
    \/ /\ Len(extracted_data.procedures) = 1
       /\ IsWeightLoss(Lower(extracted_data.procedures[1].name))

SomeProcedureNotCovered ==
    \E i \in 1..Len(extracted_data.procedures) :
        \/ IsCosmetic(Lower(extracted_data.procedures[i].name))
        \/ IsWeightLoss(Lower(extracted_data.procedures[i].name))

\* C23: an excluded diagnosis, a test requiring pre-authorization or a lone
\* weight-loss procedure rejects at the coverage step (REJECTED, limits and
\* medical necessity SKIPPED); in every other case with a cosmetic or
\* weight-loss procedure the SERVICE_NOT_COVERED reasons are kept, the limits and
\* medical-necessity steps run, and the final decision is never APPROVED.
C23_CoveragePartial ==
    CoverageReached =>
        /\ CoverageStops =>
               /\ D.decision = "REJECTED"
               /\ D.adjudication_steps.coverage = "FAIL"
               /\ D.adjudication_steps.limits = "SKIPPED"
               /\ D.adjudication_steps.medical_necessity = "SKIPPED"
        /\ (~CoverageStops /\ SomeProcedureNotCovered) =>
               /\ HasReason(D, "SERVICE_NOT_COVERED")
               /\ D.adjudication_steps.limits # "SKIPPED"
               /\ D.adjudication_steps.medical_necessity # "SKIPPED"
               /\ D.decision \in {"PARTIAL", "REJECTED"}

\* a covered and a weight-loss procedure together: PARTIAL after all five steps
C23_Witness ==
    /\ CoverageReached
    /\ ~CoverageStops
    /\ Len(extracted_data.procedures) = 2
    /\ SomeProcedureNotCovered
    /\ D.adjudication_steps.medical_necessity = "PASS"
    /\ D.decision = "PARTIAL"

---------------------------------------------------------------------------
(* Waiting periods of specific ailments *)

\* the policy is active and the consultation date and the policy start both parse
EligibilityDatesParse ==
    /\ FraudRisk < 50
    /\ Lower(member_info.policy_status) = <<"active">>
    /\ extracted_data.dates # None
    /\ Val(extracted_data.dates).consultation_date # None
    /\ Strptime(Val(Val(extracted_data.dates).consultation_date)).ok
    /\ Strptime(member_info.policy_start_date).ok

DaysSincePolicyStart ==
    Strptime(Val(Val(extracted_data.dates).consultation_date)).day
        - Strptime(member_info.policy_start_date).day

\* the waiting period the policy document configures for an ailment, 0 without one
ConfiguredWaiting(ailment) ==
    IF /\ "waiting_periods" \in DOMAIN policy_terms
       /\ "specific_ailments" \in DOMAIN policy_terms.waiting_periods
       /\ ailment \in DOMAIN policy_terms.waiting_periods.specific_ailments
    THEN policy_terms.waiting_periods.specific_ailments[ailment]
    ELSE 0

DiagnosisMentions(words) ==
    /\ extracted_data.diagnosis # None
    /\ Contains(words, Lower(Val(extracted_data.diagnosis)))

InDiabetesWaiting ==
    /\ DiagnosisMentions(<<"diabetes">>)
    /\ DaysSincePolicyStart < ConfiguredWaiting("diabetes")

InHypertensionWaiting ==
    /\ DiagnosisMentions(<<"hypertension">>) \/ DiagnosisMentions(<<"blood", "pressure">>)
    /\ DaysSincePolicyStart < ConfiguredWaiting("hypertension")

RejectedForWaiting ==
    /\ D.decision = "REJECTED"
    /\ D.adjudication_steps.eligibility = "FAIL"
    /\ HasReason(D, "WAITING_PERIOD")

\* C24: with an active policy, parsing dates and the initial waiting period over,
\* a diabetes diagnosis inside the diabetes waiting period and a hypertension or
\* blood-pressure diagnosis inside the hypertension waiting period are rejected
\* with WAITING_PERIOD; an ailment with no configured period waits 0 days and
\* nothing else rejects for waiting.
C24_AilmentWaiting ==
    (Returned /\ EligibilityDatesParse /\ ~InInitialWaitingPeriod) =>
        /\ InDiabetesWaiting => RejectedForWaiting
        /\ InHypertensionWaiting => RejectedForWaiting
        /\ (~InDiabetesWaiting /\ ~InHypertensionWaiting) =>
               /\ D.adjudication_steps.eligibility = "PASS"
               /\ ~HasReason(D, "WAITING_PERIOD")

\* a blood-pressure diagnosis 60 days into a policy with a 90-day period
C24_Witness ==
    /\ Returned
    /\ EligibilityDatesParse
    /\ ~InInitialWaitingPeriod
    /\ DiagnosisMentions(<<"blood", "pressure">>)
    /\ InHypertensionWaiting
    /\ RejectedForWaiting

\* a hypertension diagnosis under a policy that configures no period for it
C24_UnconfiguredPasses ==
    /\ Returned
    /\ EligibilityDatesParse
    /\ ~InInitialWaitingPeriod
    /\ DiagnosisMentions(<<"hypertension">>)
    /\ ConfiguredWaiting("hypertension") = 0
    /\ D.adjudication_steps.eligibility = "PASS"

---------------------------------------------------------------------------
(* Eligibility and dates that cannot be read *)

ConsultationDateMissing ==
    extracted_data.dates = None \/ Val(extracted_data.dates).consultation_date = None

\* the consultation date is there, and it or the policy start is not YYYY-MM-DD
DateUnparsable ==
    /\ ~ConsultationDateMissing
    /\ \/ ~Strptime(Val(Val(extracted_data.dates).consultation_date)).ok
       \/ ~Strptime(member_info.policy_start_date).ok

HasReasonOfCategory(d, category) ==
    \E i \in 1..Len(d.rejection_reasons) : d.rejection_reasons[i].category = category

\* C25: with an active policy, an absent consultation date, or a consultation
\* date or policy start that is not YYYY-MM-DD, raises nothing, applies no
\* waiting period and leaves the eligibility step PASS with no eligibility reason.
C25_FailOpenOnDates ==
    (/\ Returned
     /\ FraudRisk < 50
     /\ Lower(member_info.policy_status) = <<"active">>
     /\ ConsultationDateMissing \/ DateUnparsable) =>
        /\ ~D.raised
        /\ D.adjudication_steps.eligibility = "PASS"
        /\ ~HasReasonOfCategory(D, "eligibility")

\* a diabetes claim whose policy start does not parse passes eligibility
C25_Witness ==
    /\ Returned
    /\ FraudRisk < 50
    /\ Lower(member_info.policy_status) = <<"active">>
    /\ DateUnparsable
    /\ ~Strptime(member_info.policy_start_date).ok
    /\ DiagnosisMentions(<<"diabetes">>)
    /\ D.adjudication_steps.eligibility = "PASS"

---------------------------------------------------------------------------
(* The annual limit across the claims of one member *)

\* C26: under every interleaving of process_claim calls that starts with
\* ytd_claims within the annual limit, the initial ytd_claims plus the approved
\* amounts of the claims decided APPROVED or PARTIAL stays within the limit.
C26_AnnualLimitKept ==
    db.ytd_at_start <= get_annual_limit =>
        db.ytd_at_start + ApprovedSum(ClaimIds) <= get_annual_limit

---------------------------------------------------------------------------
(* One settlement per claim *)

\* C27: under every sequence or interleaving of process_claim calls on one
\* claim, at most one decision record is inserted for the claim (and with it at
\* most one increase of ytd_claims, which follows each insert of an APPROVED or
\* PARTIAL decision).
C27_SettledOnce ==
    \A c \in ClaimIds : db.claims[c].decisions <= 1

---------------------------------------------------------------------------
(* Cashless approval *)

\* C28: in every returned decision cashless_approved implies is_network_hospital
\* and a decision of APPROVED or PARTIAL; a REJECTED or MANUAL_REVIEW decision
\* never has cashless_approved set.
C28_CashlessOnlyWhenApproved ==
    (Returned /\ D.cashless_approved) =>
        /\ D.is_network_hospital
        /\ D.decision \in {"APPROVED", "PARTIAL"}

---------------------------------------------------------------------------
(* The decision value against the steps and the reasons *)

\* C29: in every returned decision APPROVED implies that all five steps are PASS
\* and rejection_reasons is empty, and REJECTED and PARTIAL each imply that
\* rejection_reasons is not empty.
C29_DecisionAgrees ==
    Returned =>
        /\ D.decision = "APPROVED" =>
               /\ \A i \in 1..Len(StepOrder) : D.adjudication_steps[StepOrder[i]] = "PASS"
               /\ D.rejection_reasons = <<>>
        /\ D.decision \in {"REJECTED", "PARTIAL"} => D.rejection_reasons # <<>>

\* an APPROVED decision whose amount was cut to what is left of the annual limit
C29_Witness ==
    /\ Returned
    /\ D.decision = "APPROVED"
    /\ D.deductions.exceeded_limits > 0
    /\ D.adjudication_steps.limits = "PASS"
    /\ D.rejection_reasons = <<>>

---------------------------------------------------------------------------
(* Non-covered procedures and the approved amount *)

\* the decision is PARTIAL and every reason it carries is SERVICE_NOT_COVERED
PartialForNonCoveredOnly ==
    /\ D.decision = "PARTIAL"
    /\ D.rejection_reasons # <<>>
    /\ \A i \in 1..Len(D.rejection_reasons) :
           D.rejection_reasons[i].code = "SERVICE_NOT_COVERED"

ApprovedLessCopayAndDiscount ==
    D.approved_amount =
        D.claimed_amount - D.deductions.copay - D.deductions.network_discount

====
